---- MODULE Spec2Model ----
(***************************************************************************)
(* Model of subsets/knn/run_dknn.py: the differentiable k-NN training      *)
(* script.  Three specifications share the module:                         *)
(*   Spec         the script run: argument parsing, layer selection,       *)
(*                resume, the epoch loop (train, validate), the final      *)
(*                reload and the two final evaluations;                    *)
(*   SpecPredict  new_predict / majority on bounded inputs;                *)
(*   SpecLoss     dknn_loss on bounded inputs.                             *)
(* Tensor indices are 1-based here and 0-based in the source.              *)
(***************************************************************************)
EXTENDS Integers, Sequences, FiniteSets, TLC

VARIABLES
    pc, err,
    argv, k, tau, method, resume, NUM_EPOCHS, NUM_TRAIN_NEIGHBORS,
    dknn_layer, h_phi, chkpt_file, logfile, best_acc, start_epoch,
    t, batch, fwd, loss_ready, grads, nupdates, last_test,
    query, neighbors, neighbor_labels, prediction,
    top_k_ness, query_y_oh, neighbor_y_oh, correct, loss

cfg_vars == <<argv, k, tau, method, resume, NUM_EPOCHS, NUM_TRAIN_NEIGHBORS>>
run_vars == <<dknn_layer, h_phi, chkpt_file, logfile, best_acc, start_epoch,
              t, batch, fwd, loss_ready, grads, nupdates, last_test>>
predict_vars == <<query, neighbors, neighbor_labels, prediction>>
loss_vars == <<top_k_ness, query_y_oh, neighbor_y_oh, correct, loss>>
vars == <<pc, err, cfg_vars, run_vars, predict_vars, loss_vars>>

(***************************************************************************)
(* Bounds and input samples.                                               *)
(***************************************************************************)
\* largest candidate set drawn for new_predict
MaxN == 3
\* largest number of Monte Carlo samples drawn for dknn_loss
MaxSamples == 2
\* largest --num_epochs drawn
MaxEpochs == 2
\* batches each evaluation loader yields (one query per batch)
NumEvalBatches == 2
\* batches the zipped training loaders yield per epoch
NumTrainBatches == 1

\* class labels drawn (a sample of the 10 classes of the one-hot encoding)
Labels == {0, 1, 2}
\* embedded vectors drawn (a sample of the embedding space, dimension 2)
Embeddings == {<<0, 0>>, <<1, 0>>, <<1, 2>>}
\* membership values drawn for top_k_ness (-1 stands for a negative entry)
Membership == {-1, 0, 1}
\* labels and embedded vectors drawn for the evaluation passes of the run
EvalLabels == {0, 1}
EvalEmbeddings == {<<0, 0>>, <<1, 2>>}
\* values of --k drawn (argparse accepts every int)
KArgs == {-1, 0, 1, 2}
\* values of --tau drawn (argparse accepts every float); <<>> is "not given"
TauArgs == {<<>>, <<0>>, <<-1>>}
\* values of --method drawn; <<>> is "not given"
MethodArgs == {<<>>, <<"subsets">>, <<"neuralsort">>, <<"knn">>}
\* values of --num_train_neighbors drawn
NeighborArgs == {1, 2}

\* number of classes of the one-hot label vectors
NumClasses == 10
\* default of --tau
TauDefault == 16
\* default of --num_samples
NUM_SAMPLES == 5
\* default of --method
MethodDefault == "stochastic"

(***************************************************************************)
(* Helpers: sums, Python slicing, float32 conversion.                      *)
(***************************************************************************)
RECURSIVE SumSeq(_)
SumSeq(s) == IF s = <<>> THEN 0 ELSE Head(s) + SumSeq(Tail(s))

\* seq[:kk] of Python: a negative bound counts from the end
PySliceTo(s, kk) ==
    LET n == Len(s)
        hi == IF kk >= 0 THEN (IF kk < n THEN kk ELSE n)
              ELSE (IF n + kk > 0 THEN n + kk ELSE 0)
    IN  SubSeq(s, 1, hi)

RECURSIVE Ulp(_, _)
\* spacing of float32 numbers at magnitude x: 1 up to 2^24, then doubling
Ulp(x, u) == IF x < 16777216 * u THEN u ELSE Ulp(x, 2 * u)

\* torch.Tensor(list of ints): each int rounded to the nearest float32
\* (ties to even), then .long() truncates back to an integer
ToFloat32Long(x) ==
    LET a == IF x < 0 THEN -x ELSE x
        u == Ulp(a, 1)
        lo == (a \div u) * u
        r == a - lo
        up == IF 2 * r > u THEN TRUE
              ELSE IF 2 * r < u THEN FALSE
              ELSE ((lo \div u) % 2 = 1)
        m == IF up THEN lo + u ELSE lo
    IN  IF x < 0 THEN -m ELSE m

(***************************************************************************)
(* majority (lines 163-164).                                               *)
(***************************************************************************)
\* lst.count(x)
count(lst, x) == Cardinality({i \in DOMAIN lst : lst[i] = x})

\* set(lst)
set(lst) == {lst[i] : i \in DOMAIN lst}

RECURSIVE SetIter(_)
\* iteration order of a CPython set of small non-negative ints: hash(i) = i
\* and every label below 8 sits in slot i of the table, so iteration is
\* ascending (Labels is a subset of 0..7)
SetIter(S) ==
    IF S = {} THEN <<>>
    ELSE LET m == CHOOSE x \in S : \A y \in S : x <= y
         IN  <<m>> \o SetIter(S \ {m})

\* max(it, key=...): the first element of the iteration whose key is
\* maximal; keys[i] is the key of it[i]
PyMax(it, keys) ==
    LET first == CHOOSE i \in DOMAIN it :
                    /\ \A j \in DOMAIN it : keys[j] <= keys[i]
                    /\ \A j \in DOMAIN it : j < i => keys[j] < keys[i]
    IN  it[first]

\* max() of an empty sequence raises ValueError
majority_raises(lst) == set(lst) = {}

\* variant of majority taking the least frequent label (min for max)
majority_min(lst) ==
    LET it == SetIter(set(lst))
    IN  PyMax(it, [i \in DOMAIN it |-> 0 - count(lst, it[i])])

\* max(set(lst), key=lst.count)
majority(lst) ==
    LET it == SetIter(set(lst))
    IN  PyMax(it, [i \in DOMAIN it |-> count(lst, it[i])])

(***************************************************************************)
(* new_predict (lines 167-179) and acc (lines 182-184).                    *)
(***************************************************************************)
\* (query.unsqueeze(1) - neighbors.unsqueeze(0)) ** 2 summed over the last
\* axis: norms[m][j] is the squared distance of query m to neighbor j
norms(q, nb) ==
    [m \in DOMAIN q |->
        [j \in DOMAIN nb |->
            SumSeq([d \in DOMAIN q[m] |->
                       (q[m][d] - nb[j][d]) * (q[m][d] - nb[j][d])])]]

\* torch.argsort(row): ascending; the order of equal entries is unspecified
\* (the sort is not stable), so every ascending permutation is a result
argsort(row) ==
    {p \in Permutations(DOMAIN row) :
        \A i \in DOMAIN row : \A j \in DOMAIN row :
            i < j => row[p[i]] <= row[p[j]]}

\* the results of torch.argsort(norms, dim=-1): one permutation per query
argsort_rows(nm) ==
    {ix \in [DOMAIN nm -> UNION {argsort(nm[m]) : m \in DOMAIN nm}] :
        \A m \in DOMAIN nm : ix[m] \in argsort(nm[m])}

\* neighbor_labels.take(indices[:, :k]): the labels of the first k indices
take_labels(nl, ix, kk) ==
    [m \in DOMAIN ix |->
        LET cut == PySliceTo(ix[m], kk)
        IN  [r \in DOMAIN cut |-> nl[cut[r]]]]

\* [majority(l.tolist()) for l in labels] raises when a row is empty
predict_raises(nl, ix, kk) ==
    \E m \in DOMAIN ix : majority_raises(take_labels(nl, ix, kk)[m])

\* torch.Tensor(prediction).long()
predict_labels(nl, ix, kk) ==
    LET lab == take_labels(nl, ix, kk)
    IN  [m \in DOMAIN ix |-> ToFloat32Long(majority(lab[m]))]

\* acc: (prediction == query_label) as 0/1 per query
acc(pred, ql) == [m \in DOMAIN pred |-> IF pred[m] = ql[m] THEN 1 ELSE 0]

(***************************************************************************)
(* dknn_loss (lines 71-86).                                                *)
(***************************************************************************)
\* utils.one_hot of a class label: a 0/1 vector of NumClasses entries
one_hot(c) == [i \in 1..NumClasses |-> IF i = c + 1 THEN 1 ELSE 0]

\* (query_label.unsqueeze(1) * neighbor_labels.unsqueeze(0)).sum(-1)
correct_of(ql, nl) ==
    [i \in DOMAIN ql |->
        [j \in DOMAIN nl |->
            SumSeq([c \in 1..NumClasses |-> ql[i][c] * nl[j][c]])]]

\* (correct.unsqueeze(0) * top_k_ness).sum(-1)
correct_in_top_k(cor, top) ==
    [s \in DOMAIN top |->
        [i \in DOMAIN top[s] |->
            SumSeq([j \in DOMAIN top[s][i] |-> cor[i][j] * top[s][i][j]])]]

\* variant of loss_of without the negation of line 84
loss_not_negated(cor, top) == correct_in_top_k(cor, top)

\* loss = -correct_in_top_k
loss_of(cor, top) ==
    LET c == correct_in_top_k(cor, top)
    IN  [s \in DOMAIN c |-> [i \in DOMAIN c[s] |-> 0 - c[s][i]]]

(***************************************************************************)
(* Accuracies: np.mean of 0/1 arrays, kept as exact fractions.             *)
(***************************************************************************)
Rat(n, d) == [num |-> n, den |-> d]

\* a > b on fractions with positive denominators
gt(a, b) == a.num * b.den > b.num * a.den

\* a == b on fractions
eq(a, b) == a.num * b.den = b.num * a.den

\* np.mean(np.array(results)): results is a list of equally long 0/1 arrays
np_mean(results) ==
    Rat(SumSeq([b \in DOMAIN results |-> SumSeq(results[b])]),
        SumSeq([b \in DOMAIN results |-> Len(results[b])]))

(***************************************************************************)
(* Values the variables of the other specifications keep.                  *)
(***************************************************************************)
NoFile == [exists |-> FALSE, acc |-> Rat(0, 1), epoch |-> 0, net |-> 0,
           by_run |-> FALSE]
NoLayer == [kind |-> "none", k |-> 0, tau |-> 0, num_samples |-> 0]
NoModel == [built |-> FALSE, params |-> 0, training |-> TRUE]
NoTest == [called |-> FALSE, val |-> FALSE, epoch |-> 0,
           total_acc |-> Rat(0, 1), saved |-> FALSE]
NoArgv == [k |-> 0, tau |-> <<>>, method |-> <<>>, resume |-> FALSE,
           num_epochs |-> 0, num_train_neighbors |-> 1]

\* the exceptions that end a run
ValueErrorMethod == "ValueError: Method must be 'subsets' or 'neuralsort'"
ValueErrorMax == "ValueError: max() arg is an empty sequence"
FileNotFound == "FileNotFoundError: checkpoint"
ZeroDivision == "ZeroDivisionError: float division by zero"

CfgIdle ==
    /\ argv = NoArgv /\ tau = 0 /\ method = "" /\ resume = FALSE
    /\ NUM_EPOCHS = 0 /\ NUM_TRAIN_NEIGHBORS = 1

RunIdle ==
    /\ dknn_layer = NoLayer /\ h_phi = NoModel /\ chkpt_file = NoFile
    /\ logfile = "none" /\ best_acc = Rat(0, 1) /\ start_epoch = 0
    /\ t = 0 /\ batch = 0 /\ fwd = -1 /\ loss_ready = FALSE
    /\ grads = FALSE /\ nupdates = 0 /\ last_test = NoTest

PredictIdle ==
    /\ query = <<>> /\ neighbors = <<>> /\ neighbor_labels = <<>>
    /\ prediction = <<>>

LossIdle ==
    /\ top_k_ness = <<>> /\ query_y_oh = <<>> /\ neighbor_y_oh = <<>>
    /\ correct = <<>> /\ loss = <<>>

(***************************************************************************)
(* SpecPredict: new_predict on drawn queries, neighbors, labels and k.     *)
(***************************************************************************)
\* single-query batches drawn, and the batch of two queries
SingleQueries == {<< <<0, 0>> >>, << <<1, 0>> >>}
TwoQueries == << <<0, 0>>, <<1, 2>> >>

\* the N=5 scenario: labels [A,A,B,B,B], candidates 0 and 1 closest to the
\* first query, k=2 (the second query sits on the three B candidates)
ScenarioInit ==
    /\ query = TwoQueries
    /\ neighbors = << <<0, 0>>, <<1, 0>>, <<1, 2>>, <<1, 2>>, <<1, 2>> >>
    /\ neighbor_labels = <<0, 0, 1, 1, 1>>
    /\ k = 2

InitPredict ==
    /\ pc = "np_start" /\ err = ""
    /\ CfgIdle /\ RunIdle /\ LossIdle
    /\ prediction = <<>>
    /\ \/ \E n \in 1..MaxN :
            /\ query \in SingleQueries
            /\ neighbors \in [1..n -> Embeddings]
            /\ neighbor_labels \in [1..n -> Labels]
            /\ k \in 0..n
       \/ \E n \in {1, 2} :
            /\ query = TwoQueries
            /\ neighbors \in [1..n -> Embeddings]
            /\ neighbor_labels \in [1..n -> Labels]
            /\ k \in 0..n
       \/ ScenarioInit

\* new_predict, lines 173-179: norms, an argsort result, the labels of the
\* first k indices, their majority per query, the returned tensor
NewPredict ==
    /\ pc = "np_start"
    /\ \E ix \in argsort_rows(norms(query, neighbors)) :
        IF predict_raises(neighbor_labels, ix, k)
        THEN /\ pc' = "error"
             /\ err' = ValueErrorMax
             /\ UNCHANGED prediction
        ELSE /\ pc' = "np_done"
             /\ prediction' = predict_labels(neighbor_labels, ix, k)
             /\ UNCHANGED err
    /\ UNCHANGED <<cfg_vars, run_vars, query, neighbors, neighbor_labels,
                   loss_vars>>

NextPredict == NewPredict

SpecPredict == InitPredict /\ [][NextPredict]_vars

(***************************************************************************)
(* SpecLoss: dknn_loss on drawn membership tensors and one-hot labels.     *)
(***************************************************************************)
\* shapes drawn: <<num_samples, batch_size, n>>
LossShapes == {<<S, 1, 2>> : S \in 1..MaxSamples} \cup {<<1, 2, 2>>}

OneHots == {one_hot(c) : c \in Labels}

InitLoss ==
    /\ pc = "loss_start" /\ err = ""
    /\ CfgIdle /\ k = 1 /\ RunIdle /\ PredictIdle
    /\ correct = <<>> /\ loss = <<>>
    /\ \E sh \in LossShapes :
        /\ top_k_ness \in [1..sh[1] -> [1..sh[2] -> [1..sh[3] -> Membership]]]
        /\ query_y_oh \in [1..sh[2] -> OneHots]
        /\ neighbor_y_oh \in [1..sh[3] -> OneHots]

\* lines 81-82: correct, batch_size x n
Correct ==
    /\ pc = "loss_start"
    /\ correct' = correct_of(query_y_oh, neighbor_y_oh)
    /\ pc' = "loss_correct"
    /\ UNCHANGED <<err, cfg_vars, run_vars, predict_vars, top_k_ness,
                   query_y_oh, neighbor_y_oh, loss>>

\* lines 83-86: correct_in_top_k, loss
Loss ==
    /\ pc = "loss_correct"
    /\ loss' = loss_of(correct, top_k_ness)
    /\ pc' = "loss_done"
    /\ UNCHANGED <<err, cfg_vars, run_vars, predict_vars, top_k_ness,
                   query_y_oh, neighbor_y_oh, correct>>

NextLoss == Correct \/ Loss

SpecLoss == InitLoss /\ [][NextLoss]_vars

(***************************************************************************)
(* Spec: the script run.                                                   *)
(***************************************************************************)
\* checkpoint files a previous run can have left on disk
InitialFiles ==
    {NoFile} \cup
    {[exists |-> TRUE, acc |-> Rat(a, NumEvalBatches), epoch |-> e,
      net |-> -1, by_run |-> FALSE] :
        a \in 1..NumEvalBatches, e \in 0..(MaxEpochs - 1)}

\* the command lines drawn
ArgvValues ==
    [k : KArgs, tau : TauArgs, method : MethodArgs, resume : BOOLEAN,
     num_epochs : 0..MaxEpochs, num_train_neighbors : NeighborArgs]

Init ==
    /\ pc = "parse_args" /\ err = ""
    /\ argv \in ArgvValues
    /\ k = 0 /\ tau = 0 /\ method = "" /\ resume = FALSE
    /\ NUM_EPOCHS = 0 /\ NUM_TRAIN_NEIGHBORS = 1
    /\ dknn_layer = NoLayer /\ h_phi = NoModel
    /\ chkpt_file \in InitialFiles
    /\ logfile = "none" /\ best_acc = Rat(0, 1) /\ start_epoch = 0
    /\ t = 0 /\ batch = 0 /\ fwd = -1 /\ loss_ready = FALSE
    /\ grads = FALSE /\ nupdates = 0 /\ last_test = NoTest
    /\ PredictIdle /\ LossIdle

\* lines 24-55: parse_args and the module-level configuration
ParseArgs ==
    /\ pc = "parse_args"
    /\ k' = argv.k
    /\ tau' = IF argv.tau = <<>> THEN TauDefault ELSE argv.tau[1]
    /\ method' = IF argv.method = <<>> THEN MethodDefault ELSE argv.method[1]
    /\ resume' = argv.resume
    /\ NUM_EPOCHS' = argv.num_epochs
    /\ NUM_TRAIN_NEIGHBORS' = argv.num_train_neighbors
    /\ pc' = "select_layer"
    /\ UNCHANGED <<err, argv, run_vars, predict_vars, loss_vars>>

\* variant of SelectLayer without the else branch of lines 61-62
SelectLayer_lenient ==
    /\ pc = "select_layer"
    /\ dknn_layer' = [kind |-> IF method = "subsets" THEN "SubsetsDKNN"
                               ELSE "DKNN",
                      k |-> k, tau |-> tau, num_samples |-> NUM_SAMPLES]
    /\ pc' = "build_model"
    /\ UNCHANGED <<err, cfg_vars, h_phi, chkpt_file, logfile, best_acc,
                   start_epoch, t, batch, fwd, loss_ready, grads, nupdates,
                   last_test, predict_vars, loss_vars>>

\* lines 57-62: the relaxation layer, or ValueError
SelectLayer ==
    /\ pc = "select_layer"
    /\ IF method = "subsets"
       THEN /\ dknn_layer' = [kind |-> "SubsetsDKNN", k |-> k, tau |-> tau,
                              num_samples |-> NUM_SAMPLES]
            /\ pc' = "build_model" /\ UNCHANGED err
       ELSE IF method = "neuralsort"
       THEN /\ dknn_layer' = [kind |-> "DKNN", k |-> k, tau |-> tau,
                              num_samples |-> NUM_SAMPLES]
            /\ pc' = "build_model" /\ UNCHANGED err
       ELSE /\ pc' = "error" /\ err' = ValueErrorMethod
            /\ UNCHANGED dknn_layer
    /\ UNCHANGED <<cfg_vars, h_phi, chkpt_file, logfile, best_acc,
                   start_epoch, t, batch, fwd, loss_ready, grads, nupdates,
                   last_test, predict_vars, loss_vars>>

\* lines 89-95: h_phi, the embedding network
BuildModel ==
    /\ pc = "build_model"
    /\ h_phi' = [built |-> TRUE, params |-> 0, training |-> TRUE]
    /\ pc' = "resume"
    /\ UNCHANGED <<err, cfg_vars, dknn_layer, chkpt_file, logfile, best_acc,
                   start_epoch, t, batch, fwd, loss_ready, grads, nupdates,
                   last_test, predict_vars, loss_vars>>

\* lines 97-109: the checkpoint directory, and the resume branch
Resume ==
    /\ pc = "resume"
    /\ IF resume
       THEN IF chkpt_file.exists
            THEN /\ h_phi' = [h_phi EXCEPT !.params = chkpt_file.net]
                 /\ best_acc' = chkpt_file.acc
                 /\ start_epoch' = chkpt_file.epoch
                 /\ pc' = "setup" /\ UNCHANGED err
            ELSE /\ pc' = "error" /\ err' = FileNotFound
                 /\ UNCHANGED <<h_phi, best_acc, start_epoch>>
       ELSE /\ best_acc' = Rat(0, 1)
            /\ start_epoch' = 0
            /\ pc' = "setup" /\ UNCHANGED <<err, h_phi>>
    /\ UNCHANGED <<cfg_vars, dknn_layer, chkpt_file, logfile, t, batch, fwd,
                   loss_ready, grads, nupdates, last_test, predict_vars,
                   loss_vars>>

\* lines 112-123, 187-192: optimizer, loaders, the log file; the loop
\* variable of line 232 starts at start_epoch
Setup ==
    /\ pc = "setup"
    /\ logfile' = "open"
    /\ t' = start_epoch
    /\ pc' = "epoch_head"
    /\ UNCHANGED <<err, cfg_vars, dknn_layer, h_phi, chkpt_file, best_acc,
                   start_epoch, batch, fwd, loss_ready, grads, nupdates,
                   last_test, predict_vars, loss_vars>>

\* lines 232-236, 127-131: the loop test, then train(t) up to its first batch
EpochHead ==
    /\ pc = "epoch_head"
    /\ IF t < NUM_EPOCHS
       THEN /\ h_phi' = [h_phi EXCEPT !.training = TRUE]
            /\ batch' = 1
            /\ pc' = "zero_grad"
       ELSE /\ pc' = "final_load"
            /\ UNCHANGED <<h_phi, batch>>
    /\ UNCHANGED <<err, cfg_vars, dknn_layer, chkpt_file, logfile, best_acc,
                   start_epoch, t, fwd, loss_ready, grads, nupdates,
                   last_test, predict_vars, loss_vars>>

\* lines 132-139: optimizer.zero_grad() and the batch moved to the device
ZeroGrad ==
    /\ pc = "zero_grad"
    /\ grads' = FALSE /\ fwd' = -1 /\ loss_ready' = FALSE /\ nupdates' = 0
    /\ pc' = "forward"
    /\ UNCHANGED <<err, cfg_vars, dknn_layer, h_phi, chkpt_file, logfile,
                   best_acc, start_epoch, t, batch, last_test, predict_vars,
                   loss_vars>>

\* lines 141-145: the forward pass of h_phi reads the parameters
Forward ==
    /\ pc = "forward"
    /\ fwd' = h_phi.params
    /\ pc' = "dknn_loss"
    /\ UNCHANGED <<err, cfg_vars, dknn_layer, h_phi, chkpt_file, logfile,
                   best_acc, start_epoch, t, batch, loss_ready, grads,
                   nupdates, last_test, predict_vars, loss_vars>>

\* lines 147-149: losses of the step and their mean
DknnLoss ==
    /\ pc = "dknn_loss"
    /\ loss_ready' = TRUE
    /\ pc' = "backward"
    /\ UNCHANGED <<err, cfg_vars, dknn_layer, h_phi, chkpt_file, logfile,
                   best_acc, start_epoch, t, batch, fwd, grads, nupdates,
                   last_test, predict_vars, loss_vars>>

\* line 150: loss.backward()
Backward ==
    /\ pc = "backward"
    /\ grads' = TRUE
    /\ pc' = "optimizer_step"
    /\ UNCHANGED <<err, cfg_vars, dknn_layer, h_phi, chkpt_file, logfile,
                   best_acc, start_epoch, t, batch, fwd, loss_ready,
                   nupdates, last_test, predict_vars, loss_vars>>

\* line 151: optimizer.step() updates the parameters
OptimizerStep ==
    /\ pc = "optimizer_step"
    /\ h_phi' = [h_phi EXCEPT !.params = @ + 1]
    /\ nupdates' = nupdates + 1
    /\ pc' = "record"
    /\ UNCHANGED <<err, cfg_vars, dknn_layer, chkpt_file, logfile, best_acc,
                   start_epoch, t, batch, fwd, loss_ready, grads, last_test,
                   predict_vars, loss_vars>>

\* line 152: (-loss).item() / k, then the next batch or lines 154-160
Record ==
    /\ pc = "record"
    /\ IF k = 0
       THEN /\ pc' = "error" /\ err' = ZeroDivision /\ UNCHANGED batch
       ELSE IF batch < NumTrainBatches
       THEN /\ batch' = batch + 1 /\ pc' = "zero_grad" /\ UNCHANGED err
       ELSE /\ pc' = "validate" /\ UNCHANGED <<err, batch>>
    /\ UNCHANGED <<cfg_vars, dknn_layer, h_phi, chkpt_file, logfile,
                   best_acc, start_epoch, t, fwd, loss_ready, grads,
                   nupdates, last_test, predict_vars, loss_vars>>

(***************************************************************************)
(* test (lines 195-229).                                                   *)
(***************************************************************************)
\* size of the candidate pool of test: every batch of the neighbor loader
PoolSize(nn) == NumTrainBatches * nn

\* acc of one query batch against the pool, for every query, query label
\* and argsort result: the 0/1 arrays it can return
batch_results(nb, nl, kk) ==
    UNION {UNION {{acc(predict_labels(nl, ix, kk), <<y>>) :
                      ix \in argsort_rows(norms(<<q>>, nb))} :
                  y \in EvalLabels} :
           q \in EvalEmbeddings}

\* the results list of one pass over the evaluation loader, per pool size
\* and k: a ValueError out of majority, or one 0/1 array per batch
test_outcomes ==
    [n \in {PoolSize(nn) : nn \in NeighborArgs}, kk \in KArgs |->
        IF PySliceTo([i \in 1..n |-> i], kk) = <<>>
        THEN {[raised |-> TRUE, results |-> <<>>]}
        ELSE UNION {UNION {{[raised |-> FALSE, results |-> r] :
                              r \in [1..NumEvalBatches ->
                                        batch_results(nb, nl, kk)]} :
                           nl \in [1..n -> EvalLabels]} :
                    nb \in [1..n -> EvalEmbeddings]}]

\* variant of test saving on every validation pass (line 221 without the
\* comparison with best_acc)
test_saves_always(epoch, val, next) ==
    /\ \E out \in test_outcomes[PoolSize(NUM_TRAIN_NEIGHBORS), k] :
        IF out.raised
        THEN /\ pc' = "error" /\ err' = ValueErrorMax
             /\ last_test' = [called |-> TRUE, val |-> val, epoch |-> epoch,
                              total_acc |-> Rat(0, 1), saved |-> FALSE]
             /\ UNCHANGED <<chkpt_file, best_acc>>
        ELSE LET total_acc == np_mean(out.results)
                 save == val
             IN  /\ chkpt_file' =
                        IF save
                        THEN [exists |-> TRUE, acc |-> total_acc,
                              epoch |-> epoch, net |-> h_phi.params,
                              by_run |-> TRUE]
                        ELSE chkpt_file
                 /\ best_acc' = IF save THEN total_acc ELSE best_acc
                 /\ last_test' = [called |-> TRUE, val |-> val,
                                  epoch |-> epoch, total_acc |-> total_acc,
                                  saved |-> save]
                 /\ pc' = next /\ UNCHANGED err
    /\ h_phi' = [h_phi EXCEPT !.training = FALSE]

\* variant of test whose pass updates the parameters
test_trains(epoch, val, next) ==
    /\ \E out \in test_outcomes[PoolSize(NUM_TRAIN_NEIGHBORS), k] :
        IF out.raised
        THEN /\ pc' = "error" /\ err' = ValueErrorMax
             /\ last_test' = [called |-> TRUE, val |-> val, epoch |-> epoch,
                              total_acc |-> Rat(0, 1), saved |-> FALSE]
             /\ UNCHANGED <<chkpt_file, best_acc>>
        ELSE LET total_acc == np_mean(out.results)
                 save == gt(total_acc, best_acc) /\ val
             IN  /\ chkpt_file' =
                        IF save
                        THEN [exists |-> TRUE, acc |-> total_acc,
                              epoch |-> epoch, net |-> h_phi.params + 1,
                              by_run |-> TRUE]
                        ELSE chkpt_file
                 /\ best_acc' = IF save THEN total_acc ELSE best_acc
                 /\ last_test' = [called |-> TRUE, val |-> val,
                                  epoch |-> epoch, total_acc |-> total_acc,
                                  saved |-> save]
                 /\ pc' = next /\ UNCHANGED err
    /\ h_phi' = [h_phi EXCEPT !.training = FALSE, !.params = @ + 1]

\* test(epoch, val): h_phi.eval(), the pool embedded under no_grad, acc of
\* every query batch, total_acc, and the checkpoint when it beats best_acc
test(epoch, val, next) ==
    /\ \E out \in test_outcomes[PoolSize(NUM_TRAIN_NEIGHBORS), k] :
        IF out.raised
        THEN /\ pc' = "error" /\ err' = ValueErrorMax
             /\ last_test' = [called |-> TRUE, val |-> val, epoch |-> epoch,
                              total_acc |-> Rat(0, 1), saved |-> FALSE]
             /\ UNCHANGED <<chkpt_file, best_acc>>
        ELSE LET total_acc == np_mean(out.results)
                 save == gt(total_acc, best_acc) /\ val
             IN  /\ chkpt_file' =
                        IF save
                        THEN [exists |-> TRUE, acc |-> total_acc,
                              epoch |-> epoch, net |-> h_phi.params,
                              by_run |-> TRUE]
                        ELSE chkpt_file
                 /\ best_acc' = IF save THEN total_acc ELSE best_acc
                 /\ last_test' = [called |-> TRUE, val |-> val,
                                  epoch |-> epoch, total_acc |-> total_acc,
                                  saved |-> save]
                 /\ pc' = next /\ UNCHANGED err
    /\ h_phi' = [h_phi EXCEPT !.training = FALSE]

\* line 237: test(t, val=True), then the next epoch
Validate ==
    /\ pc = "validate"
    /\ test(t, TRUE, "epoch_head")
    /\ t' = t + 1
    /\ UNCHANGED <<cfg_vars, dknn_layer, logfile, start_epoch, batch, fwd,
                   loss_ready, grads, nupdates, predict_vars, loss_vars>>

\* lines 240-241: the best checkpoint is loaded back
FinalLoad ==
    /\ pc = "final_load"
    /\ IF chkpt_file.exists
       THEN /\ h_phi' = [h_phi EXCEPT !.params = chkpt_file.net]
            /\ pc' = "final_val" /\ UNCHANGED err
       ELSE /\ pc' = "error" /\ err' = FileNotFound /\ UNCHANGED h_phi
    /\ UNCHANGED <<cfg_vars, dknn_layer, chkpt_file, logfile, best_acc,
                   start_epoch, t, batch, fwd, loss_ready, grads, nupdates,
                   last_test, predict_vars, loss_vars>>

\* line 242: test(-1, val=True)
FinalVal ==
    /\ pc = "final_val"
    /\ test(-1, TRUE, "final_test")
    /\ UNCHANGED <<cfg_vars, dknn_layer, logfile, start_epoch, t, batch, fwd,
                   loss_ready, grads, nupdates, predict_vars, loss_vars>>

\* lines 243-244: test(-1, val=False) and logfile.close()
FinalTest ==
    /\ pc = "final_test"
    /\ test(-1, FALSE, "done")
    /\ logfile' = IF pc' = "done" THEN "closed" ELSE logfile
    /\ UNCHANGED <<cfg_vars, dknn_layer, start_epoch, t, batch, fwd,
                   loss_ready, grads, nupdates, predict_vars, loss_vars>>

Next ==
    \/ ParseArgs \/ SelectLayer \/ BuildModel \/ Resume \/ Setup
    \/ EpochHead \/ ZeroGrad \/ Forward \/ DknnLoss \/ Backward
    \/ OptimizerStep \/ Record \/ Validate \/ FinalLoad \/ FinalVal
    \/ FinalTest

Spec == Init /\ [][Next]_vars

(***************************************************************************)
(* Claims on new_predict and dknn_loss.                                    *)
(***************************************************************************)
\* squared Euclidean distance of two vectors
SqDist(a, b) == SumSeq([d \in DOMAIN a |-> (a[d] - b[d]) * (a[d] - b[d])])

\* occurrences of label l among the candidates of S
Votes(S, l) == Cardinality({j \in S : neighbor_labels[j] = l})

\* S is a set of kk candidates nearest to q: nobody outside is closer
NearestSet(S, q, kk) ==
    /\ Cardinality(S) = kk
    /\ \A a \in S : \A b \in (DOMAIN neighbors) \ S :
          SqDist(q, neighbors[a]) <= SqDist(q, neighbors[b])

\* C1: with 1 <= k <= number of candidates, new_predict returns for every
\* query a label whose number of occurrences among the labels of k
\* candidates nearest to the query (squared Euclidean distance) is maximal.
C1_MajorityOfNearest ==
    (pc = "np_done" /\ 1 <= k /\ k <= Len(neighbors)) =>
        \A m \in DOMAIN query :
            \E S \in SUBSET (DOMAIN neighbors) :
                /\ NearestSet(S, query[m], k)
                /\ Votes(S, prediction[m]) >= 1
                /\ \A l \in Labels : Votes(S, l) <= Votes(S, prediction[m])

\* the scenario of the claim: labels [A,A,B,B,B], candidates 0 and 1
\* closest, k = 2, and new_predict has answered A
C1_Witness ==
    /\ pc = "np_done"
    /\ neighbor_labels = <<0, 0, 1, 1, 1>>
    /\ k = 2
    /\ prediction = <<0, 1>>

\* C2: loss[s][i] = -(sum over j of top_k_ness[s][i][j] * correct[i][j]),
\* correct[i][j] being 1 when query i and candidate j carry the same
\* one-hot label and 0 otherwise; with non-negative membership entries
\* the loss is <= 0.
C2_LossIsNegatedAgreementMass ==
    (pc = "loss_done") =>
        \A s \in DOMAIN top_k_ness : \A i \in DOMAIN query_y_oh :
            /\ loss[s][i] =
                 0 - SumSeq([j \in DOMAIN neighbor_y_oh |->
                               IF query_y_oh[i] = neighbor_y_oh[j]
                               THEN top_k_ness[s][i][j] ELSE 0])
            /\ (\A j \in DOMAIN neighbor_y_oh : top_k_ness[s][i][j] >= 0)
                  => loss[s][i] <= 0

\* a loss computed where one candidate agrees and counts, and another
\* candidate with a different label and a positive membership does not
C2_Witness ==
    /\ pc = "loss_done"
    /\ \E s \in DOMAIN top_k_ness : \E i \in DOMAIN query_y_oh :
        /\ loss[s][i] = -1
        /\ \E j \in DOMAIN neighbor_y_oh :
              query_y_oh[i] # neighbor_y_oh[j] /\ top_k_ness[s][i][j] = 1
        /\ \E j \in DOMAIN neighbor_y_oh :
              query_y_oh[i] = neighbor_y_oh[j] /\ top_k_ness[s][i][j] = 1

(***************************************************************************)
(* Claims on the script run.                                               *)
(***************************************************************************)
\* positions inside one training step, and those after its dknn_loss call
TrainStepPcs == {"zero_grad", "forward", "dknn_loss", "backward",
                 "optimizer_step", "record"}
AfterLossPcs == {"backward", "optimizer_step", "record"}
\* positions of the calls of test
TestPcs == {"validate", "final_val", "final_test"}
ValidMethods == {"subsets", "neuralsort"}

\* the larger of two fractions
MaxAcc(a, b) == IF gt(b, a) THEN b ELSE a

\* C3: the majority vote never fails: for every k the program accepts,
\* majority returns a label without raising.
C3_MajorityNeverRaises == err # ValueErrorMax

\* C4: 'subsets' builds the subset-relaxation layer and 'neuralsort' the
\* NeuralSort layer, each with the configured k, tau and num_samples; every
\* other method (the default included) ends the run with an error before
\* any model is built, any checkpoint or log file is created, or any
\* training step runs.
C4_MethodSelection ==
    /\ (pc # "parse_args" /\ argv.method = <<>>) => method \notin ValidMethods
    /\ (pc # "parse_args" /\ method \notin ValidMethods) =>
          /\ pc \in {"select_layer", "error"}
          /\ pc = "error" => err = ValueErrorMethod
          /\ dknn_layer = NoLayer
          /\ ~h_phi.built
          /\ logfile = "none"
          /\ ~chkpt_file.by_run
          /\ fwd = -1 /\ ~loss_ready /\ nupdates = 0
          /\ ~last_test.called
    /\ (pc \notin {"parse_args", "select_layer"} /\ method = "subsets") =>
          dknn_layer = [kind |-> "SubsetsDKNN", k |-> k, tau |-> tau,
                        num_samples |-> NUM_SAMPLES]
    /\ (pc \notin {"parse_args", "select_layer"} /\ method = "neuralsort") =>
          dknn_layer = [kind |-> "DKNN", k |-> k, tau |-> tau,
                        num_samples |-> NUM_SAMPLES]

\* a run without --method has ended at the ValueError of line 62
C4_Witness ==
    /\ pc = "error" /\ err = ValueErrorMethod
    /\ argv.method = <<>> /\ method = MethodDefault

\* C5: no training step and no exact k-NN prediction is ever executed
\* with k >= number of candidates.
C5_KBelowCandidates ==
    /\ pc \in AfterLossPcs => k < NUM_TRAIN_NEIGHBORS
    /\ last_test.called => k < PoolSize(NUM_TRAIN_NEIGHBORS)

\* C6: no relaxation layer is built and no training step runs with
\* tau <= 0.
C6_TauPositive ==
    /\ dknn_layer.kind # "none" => dknn_layer.tau > 0
    /\ pc \in TrainStepPcs => tau > 0

\* C7: in every training step the parameters are updated exactly once, by
\* the optimizer, after the forward pass and the loss of the step were
\* computed on the unchanged parameters; no call of test updates them.
C7_OneUpdatePerStep ==
    [][ /\ (pc \in TrainStepPcs /\ h_phi'.params # h_phi.params) =>
              /\ pc = "optimizer_step"
              /\ fwd = h_phi.params /\ loss_ready /\ grads
              /\ nupdates = 0 /\ nupdates' = 1
        /\ (pc \in TrainStepPcs \ {"optimizer_step"}) =>
              nupdates' = IF pc = "zero_grad" THEN 0 ELSE nupdates
        /\ pc' = "record" => (nupdates' = 1 /\ h_phi'.params = fwd' + 1)
        /\ pc \in TestPcs => h_phi'.params = h_phi.params
      ]_vars

\* a training step that has updated the parameters once
C7_Witness ==
    /\ pc = "record" /\ nupdates = 1 /\ h_phi.params = fwd + 1
    /\ last_test.called

\* C8: in a run without -resume and with no checkpoint file on disk, a
\* validation pass has saved a checkpoint before the load after the loop.
C8_FinalLoadFindsCheckpoint ==
    (/\ pc = "final_load" /\ ~resume
     /\ ~(chkpt_file.exists /\ ~chkpt_file.by_run)) =>
        (chkpt_file.exists /\ chkpt_file.by_run)

\* C9: a checkpoint is written only by a validation evaluation whose
\* accuracy is strictly greater than best_acc; best_acc never decreases; a
\* test-split evaluation changes neither best_acc nor the checkpoint; after
\* every write the stored accuracy equals best_acc, the highest validation
\* accuracy seen so far (the resumed accuracy included).
C9_CheckpointOnlyOnBetterValidation ==
    [][ /\ chkpt_file' # chkpt_file =>
              /\ pc \in {"validate", "final_val"}
              /\ last_test'.val /\ last_test'.saved
              /\ gt(last_test'.total_acc, best_acc)
              /\ chkpt_file'.exists
              /\ chkpt_file'.acc = best_acc'
              /\ best_acc' = last_test'.total_acc
        /\ ~gt(best_acc, best_acc')
        /\ pc = "final_test" =>
              (best_acc' = best_acc /\ chkpt_file' = chkpt_file)
        /\ (pc \in {"validate", "final_val"} /\ pc' # "error") =>
              eq(best_acc', MaxAcc(best_acc, last_test'.total_acc))
        /\ pc \notin (TestPcs \cup {"resume"}) => best_acc' = best_acc
        /\ pc = "resume" =>
              best_acc' = IF resume /\ chkpt_file.exists
                          THEN chkpt_file.acc ELSE Rat(0, 1)
      ]_vars

\* a resumed run whose validation pass has beaten the resumed accuracy and
\* written the checkpoint
C9_Witness ==
    /\ resume /\ pc = "epoch_head"
    /\ last_test.saved /\ chkpt_file.by_run
    /\ chkpt_file.acc = best_acc
    /\ gt(best_acc, Rat(1, NumEvalBatches))

\* C10: every checkpoint written by a run stores an epoch number in
\* 0..num_epochs-1, the final evaluations after the loop included.
C10_StoredEpochValid ==
    (chkpt_file.exists /\ chkpt_file.by_run) =>
        chkpt_file.epoch \in 0..(NUM_EPOCHS - 1)

====
